---- MODULE Spec2Model ----
(***************************************************************************)
(* A model of github.com/halimath/httpclient: the construction of a Client *)
(* from options (New), the request entry points (Get, Post, Execute, Do)   *)
(* and the interception pipeline Do runs around the transport.             *)
(*                                                                         *)
(* Do is modelled one interceptor call at a time, because interceptors are *)
(* callbacks of the caller and several calls may run through one Client.   *)
(***************************************************************************)
EXTENDS Integers, Sequences, FiniteSets, TLC

VARIABLES newOpts, client, calls

vars == <<newOpts, client, calls>>

(***************************************************************************)
(* Bounds of the model.                                                    *)
(***************************************************************************)
\* longest option list passed to New
MaxClientOpts == 2
\* longest option list passed to Get, Post, Execute or Do
MaxCallOpts == 2
\* longest option list of a call in the specification of the built-ins
MaxBuiltinOpts == 1
\* longest option list passed to New when two calls run at once
MaxConcClientOpts == 2
\* longest option list of each of two calls that run at once
MaxConcCallOpts == 1

\* the calls the model follows; Spec runs the first one
CallIds == {"c1", "c2"}
MainCalls == {"c1"}

(***************************************************************************)
(* Values: errors, requests, responses.                                    *)
(***************************************************************************)
\* the nil error
NoErr == [kind |-> "nil"]
\* the error a caller-written interceptor returns; who = <<phase, level, position>>
IcptErr(who) == [kind |-> "interceptor", who |-> who]
\* the error of http.Client.Do
TransportErr == [kind |-> "transport"]
\* the error of http.NewRequestWithContext
ConstructErr(what) == [kind |-> "construct", what |-> what]

\* a nil *http.Request / *http.Response
NilReq == [h |-> 0]
NilRes == [h |-> 0]

Methods == {"GET", "POST", "BAD METHOD"}
StatusCodes == {200, 404}

(***************************************************************************)
(* URLs.  A URL string is a sequence of tokens: a name ("https", "host"),  *)
(* ":", "//", a path segment ("/a"), or "%zz", an escape that is not one.  *)
(* A url.URL is held as its scheme and the rest, which the model does not  *)
(* take apart.                                                             *)
(***************************************************************************)
Names == {"http", "https", "ftp", "host", "other", "example.test", "x", "bad"}

ParseErr(what) == [kind |-> "parse", what |-> what]

NilURL == [scheme |-> "", rest |-> <<>>]

IsPrefix(a, b) == Len(a) <= Len(b) /\ SubSeq(b, 1, Len(a)) = a

\* url.Parse: a leading name followed by ":" is the scheme, a leading ":" is
\* an error, and so is a malformed escape anywhere
Parse(s) ==
    IF Len(s) >= 1 /\ s[1] = ":"
    THEN [url |-> NilURL, err |-> ParseErr("missing protocol scheme")]
    ELSE IF \E j \in 1..Len(s) : s[j] = "%zz"
    THEN [url |-> NilURL, err |-> ParseErr("invalid URL escape")]
    ELSE IF Len(s) >= 2 /\ s[1] \in Names /\ s[2] = ":"
    THEN [url |-> [scheme |-> s[1], rest |-> SubSeq(s, 3, Len(s))], err |-> NoErr]
    ELSE [url |-> [scheme |-> "", rest |-> s], err |-> NoErr]

\* URL.String
String(u) == IF u.scheme = "" THEN u.rest ELSE <<u.scheme, ":">> \o u.rest

\* URL.IsAbs
IsAbs(u) == u.scheme /= ""

URLs == {<<"/a">>, <<":", "bad">>}

\* net/http validMethod: a method is a token; "BAD METHOD" holds a space
ValidMethod(method) == method /= "BAD METHOD"
\* net/url Parse accepts the string
ValidURL(url) == Parse(url).err = NoErr

\* a nil io.ReadCloser
NilBody == [id |-> 0]

\* http.Header with the keys the interceptors use; Get gives the first value
NoHeader == [Accept |-> <<>>, ContentType |-> <<>>]

\* the fields of a new request: no header, a nil Body, ContentLength 0; log is
\* the list of what has been done to the bodies of this request (Close, and
\* the assignment of a new Body)
NewRequestFields == [header |-> NoHeader, body |-> NilBody, length |-> 0, log |-> <<>>]

\* records a and b in one
Merge(a, b) ==
    [f \in DOMAIN a \cup DOMAIN b |-> IF f \in DOMAIN a THEN a[f] ELSE b[f]]

\* http.NewRequestWithContext(ctx, method, url, nil): the method is checked
\* first, then the URL is parsed
NewRequestWithContext(method, url) ==
    IF ~ValidMethod(method)
    THEN [req |-> NilReq, err |-> ConstructErr("method")]
    ELSE IF ~ValidURL(url)
    THEN [req |-> NilReq, err |-> ConstructErr("url")]
    ELSE [req |-> Merge([h |-> 1, method |-> method, url |-> Parse(url).url],
                        NewRequestFields),
          err |-> NoErr]

\* the requests a caller can hand to Do
Requests ==
    { NewRequestWithContext(m, u).req :
        m \in {x \in Methods : ValidMethod(x)}, u \in {x \in URLs : ValidURL(x)} }

(***************************************************************************)
(* Options.  kind is the dynamic type of the option value:                 *)
(*   "http"  HTTPClientOption                                              *)
(*   "req"   RequestInterceptorOption                                      *)
(*   "res"   ResponseInterceptorOption                                     *)
(*   "dual"  a type with InterceptRequest and InterceptResponse (forJSON)  *)
(*   "none"  a type with neither capability that is no HTTPClientOption    *)
(* impl is the interceptor the option holds: "func" is a function written  *)
(* by the caller, whose result the model leaves open.                      *)
(***************************************************************************)
WithTransport == [kind |-> "http", impl |-> "transport"]
WithRequestInterceptorFunc == [kind |-> "req", impl |-> "func"]
WithResponseInterceptorFunc == [kind |-> "res", impl |-> "func"]
DualFunc == [kind |-> "dual", impl |-> "func"]
OtherOption == [kind |-> "none", impl |-> "none"]
ExpectedStatusCode(codes) == [kind |-> "res", impl |-> "status", codes |-> codes]
WithURLPrefix(prefix) == [kind |-> "req", impl |-> "prefix", prefix |-> prefix]
\* r is the io.Reader: its identity, its bytes, and closer, which says whether
\* it is an io.ReadCloser ("none" when not) and whether its Close fails
WithBody(r, contentType, length) ==
    [kind |-> "req", impl |-> "body", r |-> r, contentType |-> contentType, length |-> length]
WithJSON(value) == [kind |-> "req", impl |-> "json", value |-> value]
\* WithRequestInterceptorFunc and WithResponseInterceptorFunc with functions
\* that return a value of their own and a nil error: a replacement, or nil
WithReplacingRequestFunc == [kind |-> "req", impl |-> "replace"]
WithReplacingResponseFunc == [kind |-> "res", impl |-> "replace"]
WithNilRequestFunc == [kind |-> "req", impl |-> "nil"]
WithNilResponseFunc == [kind |-> "res", impl |-> "nil"]
\* &forJSON{value}: target names the variable value points to
ForJSON(target) == [kind |-> "dual", impl |-> "forjson", target |-> target]

\* opt.(HTTPClientOption)
IsHTTPClientOption(opt) == opt.kind = "http"
\* opt.(RequestInterceptor)
IsRequestInterceptor(opt) == opt.kind \in {"req", "dual"}
\* opt.(ResponseInterceptor)
IsResponseInterceptor(opt) == opt.kind \in {"res", "dual"}

\* the sequences over S of length at most n
SeqsUpTo(S, n) == UNION { [1..k -> S] : k \in 0..n }

ClientOptions ==
    {WithTransport, WithRequestInterceptorFunc, WithResponseInterceptorFunc,
     DualFunc, OtherOption}
RequestOptions ==
    {WithRequestInterceptorFunc, WithResponseInterceptorFunc, DualFunc, OtherOption}


(***************************************************************************)
(* Formatting of error messages.                                           *)
(***************************************************************************)
Digits == <<"0", "1", "2", "3", "4", "5", "6", "7", "8", "9">>

\* the decimal digits of n >= 0, as fmt's %d prints them
RECURSIVE Itoa(_)
Itoa(n) == IF n < 10 THEN <<Digits[n + 1]>> ELSE Append(Itoa(n \div 10), Digits[(n % 10) + 1])

\* fmt.Errorf("unexpected status code: %d", code)
StatusErr(code) == [kind |-> "status", msg |-> <<"unexpected status code: ">> \o Itoa(code)]

\* strings.Contains on messages held as sequences
Contains(msg, part) ==
    \E k \in 0..(Len(msg) - Len(part)) : SubSeq(msg, k + 1, k + Len(part)) = part

(***************************************************************************)
(* Interceptors.  out is what a caller-written function decides to do:     *)
(* "ok" returns its argument and a nil error, "fail" its argument and an   *)
(* error, "failnil" a nil value and an error.                              *)
(***************************************************************************)
ReqOutcomes == {"ok", "fail"}
ResOutcomes == {"ok", "fail", "failnil"}

\* RequestInterceptorFunc.InterceptRequest: the wrapped function decides
InterceptRequestFunc(r, out, who) ==
    IF out = "ok" THEN [req |-> r, err |-> NoErr] ELSE [req |-> r, err |-> IcptErr(who)]

\* ResponseInterceptorFunc.InterceptResponse: the wrapped function decides
InterceptResponseFunc(r, out, who) ==
    IF out = "ok" THEN [res |-> r, err |-> NoErr]
    ELSE IF out = "fail" THEN [res |-> r, err |-> IcptErr(who)]
    ELSE [res |-> NilRes, err |-> IcptErr(who)]

\* a variant that takes an empty list of codes to accept every status
ExpectedStatusCodeFuncEmptyPasses(codes, r) ==
    IF codes = {} \/ r.status \in codes
    THEN [res |-> r, err |-> NoErr]
    ELSE [res |-> r, err |-> StatusErr(r.status)]

\* the function ExpectedStatusCode wraps
ExpectedStatusCodeFunc(codes, r) ==
    IF r.status \in codes
    THEN [res |-> r, err |-> NoErr]
    ELSE [res |-> r, err |-> StatusErr(r.status)]

\* the error of a Close that fails
CloseErr(id) == [kind |-> "close", body |-> id]

\* json.Marshal: a string is put in quotes; a channel cannot be marshalled
Marshal(value) ==
    IF value.type = "string"
    THEN [b |-> <<"\"">> \o value.chars \o <<"\"">>, err |-> NoErr]
    ELSE [b |-> <<>>, err |-> [kind |-> "marshal", type |-> value.type]]

\* bytes.NewReader(b); id tells the readers of different marshalled values apart
BytesReader(b) == [id |-> 100 + Len(b), data |-> b, closer |-> "none"]

\* the Body withBody installs: r itself when it is an io.ReadCloser, else
\* &readCloser{r}, whose Close returns nil
BodyOf(r) == [id |-> r.id, data |-> r.data, closeFails |-> r.closer = "fails"]

\* a variant that installs the new body without closing the one before
WithBodyFuncNoClose(r, contentType, length, req) ==
    [req |-> [req EXCEPT !.body = BodyOf(r),
                         !.header = [@ EXCEPT !.ContentType = <<contentType>>],
                         !.length = length,
                         !.log = Append(@, <<"set", r.id>>)],
     err |-> NoErr]

\* a variant that adds the Content-Type with Header.Add
WithBodyFuncHeaderAdd(r, contentType, length, req) ==
    LET closed == IF req.body /= NilBody
                  THEN [req EXCEPT !.log = Append(@, <<"close", req.body.id>>)]
                  ELSE req
    IN  IF req.body /= NilBody /\ req.body.closeFails
        THEN [req |-> closed, err |-> CloseErr(req.body.id)]
        ELSE [req |-> [closed EXCEPT !.body = BodyOf(r),
                                     !.header = [@ EXCEPT !.ContentType = Append(@, contentType)],
                                     !.length = length,
                                     !.log = Append(@, <<"set", r.id>>)],
              err |-> NoErr]

\* the function withBody returns
WithBodyFunc(r, contentType, length, req) ==
    LET closed == IF req.body /= NilBody
                  THEN [req EXCEPT !.log = Append(@, <<"close", req.body.id>>)]
                  ELSE req
    IN  IF req.body /= NilBody /\ req.body.closeFails
        THEN [req |-> closed, err |-> CloseErr(req.body.id)]
        ELSE [req |-> [closed EXCEPT !.body = BodyOf(r),
                                     !.header = [@ EXCEPT !.ContentType = <<contentType>>],
                                     !.length = length,
                                     !.log = Append(@, <<"set", r.id>>)],
              err |-> NoErr]

\* the function WithJSON wraps
WithJSONFunc(value, req) ==
    LET j == Marshal(value)
    IN  IF j.err /= NoErr
        THEN [req |-> req, err |-> j.err]
        ELSE WithBodyFunc(BytesReader(j.b), "application/json", Len(j.b), req)

\* a variant that joins the URL and the prefix the wrong way round
WithURLPrefixFuncSwapped(prefix, r) ==
    IF ~IsAbs(r.url)
    THEN LET p == Parse(String(r.url) \o prefix)
         IN  IF p.err /= NoErr
             THEN [req |-> r, err |-> p.err]
             ELSE [req |-> [r EXCEPT !.url = p.url], err |-> NoErr]
    ELSE [req |-> r, err |-> NoErr]

\* the function WithURLPrefix wraps
WithURLPrefixFunc(prefix, r) ==
    IF ~IsAbs(r.url)
    THEN LET p == Parse(prefix \o String(r.url))
         IN  IF p.err /= NoErr
             THEN [req |-> r, err |-> p.err]
             ELSE [req |-> [r EXCEPT !.url = p.url], err |-> NoErr]
    ELSE [req |-> r, err |-> NoErr]

\* the handle of the value the interceptor who makes: one per interceptor
FreshHandle(who) == (IF who[2] = "client" THEN 10 ELSE 20) + who[3]

\* a function that returns a new request with the fields of the one it got
ReplaceRequest(r, who) == [req |-> Merge([h |-> FreshHandle(who)], r), err |-> NoErr]

\* a function that returns a new response, with a body of its own
ReplaceResponse(r, who) ==
    [res |-> Merge([h |-> FreshHandle(who), body |-> FreshHandle(who)], r), err |-> NoErr]

\* forJSON.InterceptRequest
ForJSONInterceptRequest(r) ==
    [req |-> [r EXCEPT !.header = [@ EXCEPT !.Accept = Append(@, "application/json")]],
     err |-> NoErr]

\* Header.Get("Content-Type") of a response: the first value, "" when there is
\* none; a value is a list of pieces, "application/json" being one piece
GetContentType(r) ==
    IF r.header.ContentType = <<>> THEN <<>> ELSE r.header.ContentType[1]

\* strings.HasPrefix(ct, "application/json")
HasJSONPrefix(ct) == IsPrefix(<<"application/json">>, ct)

\* fmt.Errorf("expected JSON response but got %s", ct)
ContentTypeErr(ct) == [kind |-> "fmt", msg |-> <<"expected JSON response but got ">> \o ct]

\* the error of a Read that fails
ReadErr == [kind |-> "read"]

\* json.Unmarshal of d: a string in quotes is decoded, anything else is refused
Unmarshal(d) ==
    IF d = <<>>
    THEN [value |-> [type |-> "none"], err |-> [kind |-> "json", msg |-> "unexpected end of JSON input"]]
    ELSE IF /\ Len(d) >= 2
            /\ d[1] = "\"" /\ d[Len(d)] = "\""
            /\ \A j \in 2..(Len(d) - 1) : d[j] /= "\""
    THEN [value |-> [type |-> "string", chars |-> SubSeq(d, 2, Len(d) - 1)], err |-> NoErr]
    ELSE [value |-> [type |-> "none"], err |-> [kind |-> "json", msg |-> "invalid character"]]

\* a variant that accepts the content type application/json only as a whole
ForJSONInterceptResponseExact(target, r) ==
    LET ct == GetContentType(r)
        u == Unmarshal(r.data)
        read == [r EXCEPT !.data = <<>>, !.log = Append(@, [op |-> "read", data |-> r.data])]
    IN  IF ct /= <<"application/json">>
        THEN [res |-> r, err |-> ContentTypeErr(ct)]
        ELSE IF r.readFails
        THEN [res |-> [r EXCEPT !.log = Append(@, [op |-> "read", data |-> <<>>])], err |-> ReadErr]
        ELSE IF u.err /= NoErr
        THEN [res |-> read, err |-> u.err]
        ELSE [res |-> [read EXCEPT !.log = Append(@, [op |-> "store", target |-> target,
                                                      value |-> u.value])],
              err |-> NoErr]

\* forJSON.InterceptResponse; the log of the response lists the reads of its
\* body and the values stored through jr.value
ForJSONInterceptResponse(target, r) ==
    LET ct == GetContentType(r)
        u == Unmarshal(r.data)
        read == [r EXCEPT !.data = <<>>, !.log = Append(@, [op |-> "read", data |-> r.data])]
    IN  IF ~HasJSONPrefix(ct)
        THEN [res |-> r, err |-> ContentTypeErr(ct)]
        ELSE IF r.readFails
        THEN [res |-> [r EXCEPT !.log = Append(@, [op |-> "read", data |-> <<>>])], err |-> ReadErr]
        ELSE IF u.err /= NoErr
        THEN [res |-> read, err |-> u.err]
        ELSE [res |-> [read EXCEPT !.log = Append(@, [op |-> "store", target |-> target,
                                                      value |-> u.value])],
              err |-> NoErr]

\* i.InterceptRequest(req), dispatched on the interceptor the option holds
InterceptRequest(opt, r, out, who) ==
    IF opt.impl = "prefix"
    THEN WithURLPrefixFunc(opt.prefix, r)
    ELSE IF opt.impl = "body"
    THEN WithBodyFunc(opt.r, opt.contentType, opt.length, r)
    ELSE IF opt.impl = "json"
    THEN WithJSONFunc(opt.value, r)
    ELSE IF opt.impl = "forjson"
    THEN ForJSONInterceptRequest(r)
    ELSE IF opt.impl = "replace"
    THEN ReplaceRequest(r, who)
    ELSE IF opt.impl = "nil"
    THEN [req |-> NilReq, err |-> NoErr]
    ELSE InterceptRequestFunc(r, out, who)

\* i.InterceptResponse(res), dispatched on the interceptor the option holds
InterceptResponse(opt, r, out, who) ==
    IF opt.impl = "status"
    THEN ExpectedStatusCodeFunc(opt.codes, r)
    ELSE IF opt.impl = "forjson"
    THEN ForJSONInterceptResponse(opt.target, r)
    ELSE IF opt.impl = "replace"
    THEN ReplaceResponse(r, who)
    ELSE IF opt.impl = "nil"
    THEN [res |-> NilRes, err |-> NoErr]
    ELSE InterceptResponseFunc(r, out, who)

(***************************************************************************)
(* New: the Client and its construction.                                   *)
(***************************************************************************)
\* &Client{c: new(http.Client)}; panicked records that New did not return
EmptyClient ==
    [state |-> "built", c |-> "DefaultTransport",
     reqInterceptors |-> <<>>, resInterceptors |-> <<>>]

NoClient ==
    [state |-> "none", c |-> "none", reqInterceptors |-> <<>>, resInterceptors |-> <<>>]

PanickedClient ==
    [state |-> "panicked", c |-> "none", reqInterceptors |-> <<>>, resInterceptors |-> <<>>]

\* a variant whose type switch has no case for ResponseInterceptor
NewSwitchNoResponseCase(cl, opt, arg) ==
    IF IsHTTPClientOption(opt)
    THEN [cl EXCEPT !.c = "custom"]
    ELSE IF IsRequestInterceptor(opt)
    THEN [cl EXCEPT !.reqInterceptors = Append(@, [opt |-> opt, arg |-> arg])]
    ELSE PanickedClient

\* one round of the type switch; arg is the position of opt in New's arguments
NewSwitch(cl, opt, arg) ==
    IF IsHTTPClientOption(opt)
    THEN [cl EXCEPT !.c = "custom"]
    ELSE IF IsRequestInterceptor(opt)
    THEN [cl EXCEPT !.reqInterceptors = Append(@, [opt |-> opt, arg |-> arg])]
    ELSE IF IsResponseInterceptor(opt)
    THEN [cl EXCEPT !.resInterceptors = Append(@, [opt |-> opt, arg |-> arg])]
    ELSE PanickedClient

\* for _, opt := range opts { switch ... }: a panic ends the loop
RECURSIVE NewLoop(_, _, _)
NewLoop(cl, opts, arg) ==
    IF arg > Len(opts) \/ cl.state = "panicked"
    THEN cl
    ELSE NewLoop(NewSwitch(cl, opts[arg], arg), opts, arg + 1)

NewClient(opts) == NewLoop(EmptyClient, opts, 1)

(***************************************************************************)
(* Do: the state of one call and the steps of the pipeline.                *)
(***************************************************************************)
\* pc is the place of the call in Do, i the loop index, args the method and
\* URL the call was started with, trace the calls Do has made so far (to an
\* interceptor, to the transport, to Body.Close), ret what the call returned
IdleCall ==
    [pc |-> "idle", args |-> [method |-> "", url |-> <<>>], i |-> 0, opts |-> <<>>,
     req |-> NilReq, res |-> NilRes, deferred |-> <<>>, trace |-> <<>>, ret |-> [res |-> NilRes, err |-> NoErr]]

\* the deferred calls of Do, run last-in first-out
RECURSIVE RunDeferred(_, _)
RunDeferred(trace, deferred) ==
    IF deferred = <<>>
    THEN trace
    ELSE RunDeferred(Append(trace, [ev |-> "close", body |-> deferred[Len(deferred)]]),
                     SubSeq(deferred, 1, Len(deferred) - 1))

\* a variant whose deferred call reads res.Body when Do returns, as
\* defer func() { res.Body.Close() }() would
ReturnClosesCurrent(k, res, err) ==
    [k EXCEPT !.pc = "done", !.ret = [res |-> res, err |-> err],
              !.trace = IF k.deferred = <<>> \/ k.res = NilRes
                        THEN k.trace
                        ELSE Append(k.trace, [ev |-> "close", body |-> k.res.body]),
              !.deferred = <<>>]

\* return res, err: the deferred calls run and the call is over
Return(k, res, err) ==
    [k EXCEPT !.pc = "done", !.ret = [res |-> res, err |-> err],
              !.trace = RunDeferred(k.trace, k.deferred), !.deferred = <<>>]

\* a variant that closes the body only at the end of Do, without defer
DeferCloseForgotten(k, res) == k

\* defer res.Body.Close(): the body is the one res holds at this statement
DeferClose(k, res) == [k EXCEPT !.deferred = Append(@, res.body)]

\* entering Do
DoStart(k, req, opts) ==
    [k EXCEPT !.pc = "clientReq", !.i = 1, !.req = req, !.opts = opts]

\* a variant that walks c.reqInterceptors from the last to the first
DoClientReqLoopReversed(cl, k, out) ==
    IF k.i > Len(cl.reqInterceptors)
    THEN [k EXCEPT !.pc = "callReq", !.i = 1]
    ELSE LET icpt == cl.reqInterceptors[Len(cl.reqInterceptors) + 1 - k.i]
             r == InterceptRequest(icpt.opt, k.req, out, <<"req", "client", icpt.arg>>)
             k1 == [k EXCEPT !.req = r.req,
                             !.trace = Append(@, [ev |-> "req", lvl |-> "client", arg |-> icpt.arg,
                                                  in |-> k.req, out |-> r.req, err |-> r.err])]
         IN  IF r.err /= NoErr THEN Return(k1, NilRes, r.err) ELSE [k1 EXCEPT !.i = @ + 1]

\* one round of: for _, i := range c.reqInterceptors
DoClientReqLoop(cl, k, out) ==
    IF k.i > Len(cl.reqInterceptors)
    THEN [k EXCEPT !.pc = "callReq", !.i = 1]
    ELSE LET icpt == cl.reqInterceptors[k.i]
             r == InterceptRequest(icpt.opt, k.req, out, <<"req", "client", icpt.arg>>)
             k1 == [k EXCEPT !.req = r.req,
                             !.trace = Append(@, [ev |-> "req", lvl |-> "client", arg |-> icpt.arg,
                                                  in |-> k.req, out |-> r.req, err |-> r.err])]
         IN  IF r.err /= NoErr THEN Return(k1, NilRes, r.err) ELSE [k1 EXCEPT !.i = @ + 1]

\* a variant that does not test the error a call-level request interceptor returns
DoCallReqLoopErrIgnored(k, out) ==
    IF k.i > Len(k.opts)
    THEN [k EXCEPT !.pc = "transport", !.i = 0]
    ELSE IF ~IsRequestInterceptor(k.opts[k.i])
    THEN [k EXCEPT !.i = @ + 1]
    ELSE LET r == InterceptRequest(k.opts[k.i], k.req, out, <<"req", "call", k.i>>)
         IN  [k EXCEPT !.req = r.req, !.i = @ + 1,
                       !.trace = Append(@, [ev |-> "req", lvl |-> "call", arg |-> k.i,
                                            in |-> k.req, out |-> r.req, err |-> r.err])]

\* one round of: for _, opt := range opts { if i, ok := opt.(RequestInterceptor) }
DoCallReqLoop(k, out) ==
    IF k.i > Len(k.opts)
    THEN [k EXCEPT !.pc = "transport", !.i = 0]
    ELSE IF ~IsRequestInterceptor(k.opts[k.i])
    THEN [k EXCEPT !.i = @ + 1]
    ELSE LET r == InterceptRequest(k.opts[k.i], k.req, out, <<"req", "call", k.i>>)
             k1 == [k EXCEPT !.req = r.req,
                             !.trace = Append(@, [ev |-> "req", lvl |-> "call", arg |-> k.i,
                                                  in |-> k.req, out |-> r.req, err |-> r.err])]
         IN  IF r.err /= NoErr THEN Return(k1, NilRes, r.err) ELSE [k1 EXCEPT !.i = @ + 1]

\* a variant that returns nil, err when the transport fails
DoTransportNilOnError(k, t) ==
    LET k1 == [k EXCEPT !.trace = Append(@, [ev |-> "transport", req |-> k.req,
                                             res |-> t.res, err |-> t.err])]
    IN  IF k.req = NilReq
        THEN [k EXCEPT !.pc = "panicked",
                       !.trace = Append(@, [ev |-> "transport", req |-> k.req,
                                            res |-> NilRes, err |-> NoErr])]
        ELSE IF t.err /= NoErr
        THEN Return(k1, NilRes, t.err)
        ELSE [DeferClose(k1, t.res) EXCEPT !.res = t.res, !.pc = "callRes", !.i = 1]

\* res, err := c.c.Do(req); if err != nil { return res, err }; defer ...
\* http.Client.Do reads req.URL first: with a nil req the call panics, no
\* deferred call is registered yet and Do does not return
DoTransport(k, t) ==
    LET k1 == [k EXCEPT !.trace = Append(@, [ev |-> "transport", req |-> k.req,
                                             res |-> t.res, err |-> t.err])]
    IN  IF k.req = NilReq
        THEN [k EXCEPT !.pc = "panicked",
                       !.trace = Append(@, [ev |-> "transport", req |-> k.req,
                                            res |-> NilRes, err |-> NoErr])]
        ELSE IF t.err /= NoErr
        THEN Return(k1, t.res, t.err)
        ELSE [DeferClose(k1, t.res) EXCEPT !.res = t.res, !.pc = "callRes", !.i = 1]

\* a variant that asserts RequestInterceptor in the response loop
DoCallResLoopWrongAssertion(k, out) ==
    IF k.i > Len(k.opts)
    THEN [k EXCEPT !.pc = "clientRes", !.i = 1]
    ELSE IF ~IsRequestInterceptor(k.opts[k.i])
    THEN [k EXCEPT !.i = @ + 1]
    ELSE LET r == InterceptResponse(k.opts[k.i], k.res, out, <<"res", "call", k.i>>)
             k1 == [k EXCEPT !.res = r.res,
                             !.trace = Append(@, [ev |-> "res", lvl |-> "call", arg |-> k.i,
                                                  in |-> k.res, out |-> r.res, err |-> r.err])]
         IN  IF r.err /= NoErr THEN Return(k1, r.res, r.err) ELSE [k1 EXCEPT !.i = @ + 1]

\* a variant that breaks out of the call-level loop on an error instead of returning
DoCallResLoopBreakOnError(k, out) ==
    IF k.i > Len(k.opts)
    THEN [k EXCEPT !.pc = "clientRes", !.i = 1]
    ELSE IF ~IsResponseInterceptor(k.opts[k.i])
    THEN [k EXCEPT !.i = @ + 1]
    ELSE LET r == InterceptResponse(k.opts[k.i], k.res, out, <<"res", "call", k.i>>)
             k1 == [k EXCEPT !.res = r.res,
                             !.trace = Append(@, [ev |-> "res", lvl |-> "call", arg |-> k.i,
                                                  in |-> k.res, out |-> r.res, err |-> r.err])]
         IN  IF r.err /= NoErr
             THEN [k1 EXCEPT !.pc = "clientRes", !.i = 1]
             ELSE [k1 EXCEPT !.i = @ + 1]

\* a variant that takes the two capabilities of an option to exclude each other
DoCallResLoopExclusive(k, out) ==
    IF k.i > Len(k.opts)
    THEN [k EXCEPT !.pc = "clientRes", !.i = 1]
    ELSE IF IsRequestInterceptor(k.opts[k.i]) \/ ~IsResponseInterceptor(k.opts[k.i])
    THEN [k EXCEPT !.i = @ + 1]
    ELSE LET r == InterceptResponse(k.opts[k.i], k.res, out, <<"res", "call", k.i>>)
             k1 == [k EXCEPT !.res = r.res,
                             !.trace = Append(@, [ev |-> "res", lvl |-> "call", arg |-> k.i,
                                                  in |-> k.res, out |-> r.res, err |-> r.err])]
         IN  IF r.err /= NoErr THEN Return(k1, r.res, r.err) ELSE [k1 EXCEPT !.i = @ + 1]

\* one round of: for _, opt := range opts { if i, ok := opt.(ResponseInterceptor) }
DoCallResLoop(k, out) ==
    IF k.i > Len(k.opts)
    THEN [k EXCEPT !.pc = "clientRes", !.i = 1]
    ELSE IF ~IsResponseInterceptor(k.opts[k.i])
    THEN [k EXCEPT !.i = @ + 1]
    ELSE LET r == InterceptResponse(k.opts[k.i], k.res, out, <<"res", "call", k.i>>)
             k1 == [k EXCEPT !.res = r.res,
                             !.trace = Append(@, [ev |-> "res", lvl |-> "call", arg |-> k.i,
                                                  in |-> k.res, out |-> r.res, err |-> r.err])]
         IN  IF r.err /= NoErr THEN Return(k1, r.res, r.err) ELSE [k1 EXCEPT !.i = @ + 1]

\* a variant that drops the response the interceptor returns
DoClientResLoopDiscards(cl, k, out) ==
    IF k.i > Len(cl.resInterceptors)
    THEN Return(k, k.res, NoErr)
    ELSE LET icpt == cl.resInterceptors[k.i]
             r == InterceptResponse(icpt.opt, k.res, out, <<"res", "client", icpt.arg>>)
             k1 == [k EXCEPT !.trace = Append(@, [ev |-> "res", lvl |-> "client", arg |-> icpt.arg,
                                                  in |-> k.res, out |-> r.res, err |-> r.err])]
         IN  IF r.err /= NoErr THEN Return(k1, r.res, r.err) ELSE [k1 EXCEPT !.i = @ + 1]

\* one round of: for _, i := range c.resInterceptors, and the final return
DoClientResLoop(cl, k, out) ==
    IF k.i > Len(cl.resInterceptors)
    THEN Return(k, k.res, NoErr)
    ELSE LET icpt == cl.resInterceptors[k.i]
             r == InterceptResponse(icpt.opt, k.res, out, <<"res", "client", icpt.arg>>)
             k1 == [k EXCEPT !.res = r.res,
                             !.trace = Append(@, [ev |-> "res", lvl |-> "client", arg |-> icpt.arg,
                                                  in |-> k.res, out |-> r.res, err |-> r.err])]
         IN  IF r.err /= NoErr THEN Return(k1, r.res, r.err) ELSE [k1 EXCEPT !.i = @ + 1]

\* what http.Client.Do can return: a response and no error, no response and an
\* error, or (a failed redirect check) a response whose body is already closed
\* together with an error
TransportOutcomes(codes) ==
    { [res |-> [h |-> 1, status |-> s, body |-> 1], err |-> NoErr] : s \in codes }
    \cup { [res |-> NilRes, err |-> TransportErr],
           [res |-> [h |-> 1, status |-> 302, body |-> 1], err |-> TransportErr] }

\* a variant that does not test the error of http.NewRequestWithContext
ExecuteCallErrIgnored(k, method, url, opts) ==
    DoStart([k EXCEPT !.args = [method |-> method, url |-> url], !.opts = opts],
            NewRequestWithContext(method, url).req, opts)

\* Execute: build the request, then Do
ExecuteCall(k, method, url, opts) ==
    LET r == NewRequestWithContext(method, url)
        k1 == [k EXCEPT !.args = [method |-> method, url |-> url], !.opts = opts]
    IN  IF r.err /= NoErr THEN Return(k1, NilRes, r.err) ELSE DoStart(k1, r.req, opts)

(***************************************************************************)
(* Actions.                                                                *)
(***************************************************************************)
Init ==
    /\ newOpts = <<>>
    /\ client = NoClient
    /\ calls = [c \in CallIds |-> IdleCall]

New(opts) ==
    /\ client.state = "none"
    /\ newOpts' = opts
    /\ client' = NewClient(opts)
    /\ UNCHANGED calls

Execute(c, method, url, opts) ==
    /\ client.state = "built"
    /\ calls[c].pc = "idle"
    /\ calls' = [calls EXCEPT ![c] = ExecuteCall(@, method, url, opts)]
    /\ UNCHANGED <<newOpts, client>>

Get(c, url, opts) == Execute(c, "GET", url, opts)

Post(c, url, opts) == Execute(c, "POST", url, opts)

Do(c, req, opts) ==
    /\ client.state = "built"
    /\ calls[c].pc = "idle"
    /\ calls' = [calls EXCEPT ![c] =
                    DoStart([@ EXCEPT !.args = [method |-> req.method, url |-> String(req.url)]],
                            req, opts)]
    /\ UNCHANGED <<newOpts, client>>

ClientRequestInterceptor(c) ==
    /\ calls[c].pc = "clientReq"
    /\ \E out \in ReqOutcomes : calls' = [calls EXCEPT ![c] = DoClientReqLoop(client, @, out)]
    /\ UNCHANGED <<newOpts, client>>

\* a variant that registers a call-level request interceptor with the client
CallRequestInterceptorRegisters(c) ==
    /\ calls[c].pc = "callReq"
    /\ \E out \in ReqOutcomes : calls' = [calls EXCEPT ![c] = DoCallReqLoop(@, out)]
    /\ client' =
          IF calls[c].i <= Len(calls[c].opts) /\ IsRequestInterceptor(calls[c].opts[calls[c].i])
          THEN [client EXCEPT !.reqInterceptors =
                                 Append(@, [opt |-> calls[c].opts[calls[c].i], arg |-> 0])]
          ELSE client
    /\ UNCHANGED newOpts

CallRequestInterceptor(c) ==
    /\ calls[c].pc = "callReq"
    /\ \E out \in ReqOutcomes : calls' = [calls EXCEPT ![c] = DoCallReqLoop(@, out)]
    /\ UNCHANGED <<newOpts, client>>

Transport(c, codes) ==
    /\ calls[c].pc = "transport"
    /\ \E t \in TransportOutcomes(codes) : calls' = [calls EXCEPT ![c] = DoTransport(@, t)]
    /\ UNCHANGED <<newOpts, client>>

CallResponseInterceptor(c) ==
    /\ calls[c].pc = "callRes"
    /\ \E out \in ResOutcomes : calls' = [calls EXCEPT ![c] = DoCallResLoop(@, out)]
    /\ UNCHANGED <<newOpts, client>>

ClientResponseInterceptor(c) ==
    /\ calls[c].pc = "clientRes"
    /\ \E out \in ResOutcomes : calls' = [calls EXCEPT ![c] = DoClientResLoop(client, @, out)]
    /\ UNCHANGED <<newOpts, client>>

Next ==
    \/ \E opts \in SeqsUpTo(ClientOptions, MaxClientOpts) : New(opts)
    \/ \E c \in MainCalls, url \in URLs, opts \in SeqsUpTo(RequestOptions, MaxCallOpts) :
          Get(c, url, opts)
    \/ \E c \in MainCalls, url \in URLs, opts \in SeqsUpTo(RequestOptions, MaxCallOpts) :
          Post(c, url, opts)
    \/ \E c \in MainCalls, method \in Methods, url \in URLs,
          opts \in SeqsUpTo(RequestOptions, MaxCallOpts) :
          Execute(c, method, url, opts)
    \/ \E c \in MainCalls, req \in Requests, opts \in SeqsUpTo(RequestOptions, MaxCallOpts) :
          Do(c, req, opts)
    \/ \E c \in MainCalls : ClientRequestInterceptor(c)
    \/ \E c \in MainCalls : CallRequestInterceptor(c)
    \/ \E c \in MainCalls : Transport(c, {200})
    \/ \E c \in MainCalls : CallResponseInterceptor(c)
    \/ \E c \in MainCalls : ClientResponseInterceptor(c)

Spec == Init /\ [][Next]_vars

(***************************************************************************)
(* The same engine with the built-in interceptors as options.              *)
(***************************************************************************)
BuiltinOptions == { ExpectedStatusCode(codes) : codes \in SUBSET StatusCodes }

NextBuiltin ==
    \/ \E opts \in SeqsUpTo(BuiltinOptions, MaxBuiltinOpts) : New(opts)
    \/ \E c \in MainCalls, url \in URLs, opts \in SeqsUpTo(BuiltinOptions, MaxBuiltinOpts) :
          Get(c, url, opts)
    \/ \E c \in MainCalls : ClientRequestInterceptor(c)
    \/ \E c \in MainCalls : CallRequestInterceptor(c)
    \/ \E c \in MainCalls : Transport(c, StatusCodes)
    \/ \E c \in MainCalls : CallResponseInterceptor(c)
    \/ \E c \in MainCalls : ClientResponseInterceptor(c)

SpecBuiltin == Init /\ [][NextBuiltin]_vars

(***************************************************************************)
(* The engine with WithURLPrefix as option.                                *)
(***************************************************************************)
Prefixes ==
    {<<"https", ":", "//", "host">>, <<"https", ":", "//", "example.test">>,
     <<"/api">>, <<":">>, <<"https", ":", "//", "host", "%zz">>}

URLStrings ==
    {<<"/a">>, <<"/a", "/b">>, <<"https", ":", "//", "other", "/x">>,
     <<"http", ":", "//", "host", "/a">>, <<"ftp", ":", "//", "x">>, <<":", "bad">>}

URLPrefixOptions == { WithURLPrefix(p) : p \in Prefixes }

NextURL ==
    \/ \E opts \in SeqsUpTo(URLPrefixOptions, MaxBuiltinOpts) : New(opts)
    \/ \E c \in MainCalls, url \in URLStrings,
          opts \in SeqsUpTo(URLPrefixOptions, MaxBuiltinOpts) :
          Get(c, url, opts)
    \/ \E c \in MainCalls : ClientRequestInterceptor(c)
    \/ \E c \in MainCalls : CallRequestInterceptor(c)
    \/ \E c \in MainCalls : Transport(c, {200})
    \/ \E c \in MainCalls : CallResponseInterceptor(c)
    \/ \E c \in MainCalls : ClientResponseInterceptor(c)

SpecURL == Init /\ [][NextURL]_vars

(***************************************************************************)
(* The engine with the body setters WithBody and WithJSON as options, and  *)
(* requests that may come with a body.                                     *)
(***************************************************************************)
Hello == [type |-> "string", chars |-> <<"h", "e", "l", "l", "o">>]
AChannel == [type |-> "chan"]

\* a plain io.Reader and an io.ReadCloser whose Close fails
PlainReader == [id |-> 1, data |-> <<"a", "b">>, closer |-> "none"]
FailingCloser == [id |-> 2, data |-> <<"c">>, closer |-> "fails"]

BodyOptions ==
    {WithBody(PlainReader, "text/plain", 2), WithBody(FailingCloser, "text/plain", 1),
     WithJSON(Hello), WithJSON(AChannel)}

\* a caller's own requests for Do: without a body, with a body, with a body
\* whose Close fails
BodyRequests ==
    { [NewRequestWithContext("POST", <<"/a">>).req EXCEPT
           !.body = b, !.header = [@ EXCEPT !.ContentType = ct]] :
        b \in {NilBody, [id |-> 3, data |-> <<"z">>, closeFails |-> FALSE],
               [id |-> 4, data |-> <<"z">>, closeFails |-> TRUE]},
        ct \in {<<>>, <<"text/html">>} }

NextBody ==
    \/ \E opts \in SeqsUpTo(BodyOptions, MaxBuiltinOpts) : New(opts)
    \/ \E c \in MainCalls, url \in URLs, opts \in SeqsUpTo(BodyOptions, MaxBuiltinOpts) :
          Post(c, url, opts)
    \/ \E c \in MainCalls, req \in BodyRequests,
          opts \in SeqsUpTo(BodyOptions, MaxBuiltinOpts) :
          Do(c, req, opts)
    \/ \E c \in MainCalls : ClientRequestInterceptor(c)
    \/ \E c \in MainCalls : CallRequestInterceptor(c)
    \/ \E c \in MainCalls : Transport(c, {200})
    \/ \E c \in MainCalls : CallResponseInterceptor(c)
    \/ \E c \in MainCalls : ClientResponseInterceptor(c)

SpecBody == Init /\ [][NextBody]_vars

(***************************************************************************)
(* The engine with ForJSON as an option and a transport that answers with  *)
(* a content type and a body.                                              *)
(***************************************************************************)
ContentTypes ==
    {<<>>, << <<"application/json">> >>, << <<"application/json", "; charset=utf-8">> >>,
     << <<"text/html">> >>, << <<"application/", "xml">> >>}

\* the bytes of a body: "hi" in quotes, something that is not JSON, nothing
BodyBytes == {<<"\"", "h", "i", "\"">>, <<"{", "o">>, <<>>}

\* what http.Client.Do can return, with the header and the body of a response
JSONTransportOutcomes ==
    { [res |-> [h |-> 1, status |-> 200, body |-> 1,
                header |-> [ContentType |-> ct], data |-> d, readFails |-> f, log |-> <<>>],
       err |-> NoErr] : ct \in ContentTypes, d \in BodyBytes, f \in BOOLEAN }
    \cup { [res |-> NilRes, err |-> TransportErr] }

TransportJSON(c) ==
    /\ calls[c].pc = "transport"
    /\ \E t \in JSONTransportOutcomes : calls' = [calls EXCEPT ![c] = DoTransport(@, t)]
    /\ UNCHANGED <<newOpts, client>>

JSONOptions == {ForJSON("t1"), ExpectedStatusCode({200})}

NextJSON ==
    \/ \E opts \in SeqsUpTo(JSONOptions, MaxBuiltinOpts) : New(opts)
    \/ \E c \in MainCalls, url \in URLs, opts \in SeqsUpTo(JSONOptions, MaxBuiltinOpts) :
          Get(c, url, opts)
    \/ \E c \in MainCalls : ClientRequestInterceptor(c)
    \/ \E c \in MainCalls : CallRequestInterceptor(c)
    \/ \E c \in MainCalls : TransportJSON(c)
    \/ \E c \in MainCalls : CallResponseInterceptor(c)
    \/ \E c \in MainCalls : ClientResponseInterceptor(c)

SpecJSON == Init /\ [][NextJSON]_vars

(***************************************************************************)
(* The engine with interceptors that return a replacement or nil together  *)
(* with a nil error.                                                       *)
(***************************************************************************)
ValueOptions ==
    {WithReplacingRequestFunc, WithReplacingResponseFunc, WithNilRequestFunc,
     WithNilResponseFunc}

NextValues ==
    \/ \E opts \in SeqsUpTo(ValueOptions, MaxClientOpts) : New(opts)
    \/ \E c \in MainCalls, url \in URLs, opts \in SeqsUpTo(ValueOptions, MaxCallOpts) :
          Get(c, url, opts)
    \/ \E c \in MainCalls : ClientRequestInterceptor(c)
    \/ \E c \in MainCalls : CallRequestInterceptor(c)
    \/ \E c \in MainCalls : Transport(c, {200})
    \/ \E c \in MainCalls : CallResponseInterceptor(c)
    \/ \E c \in MainCalls : ClientResponseInterceptor(c)

SpecValues == Init /\ [][NextValues]_vars

(***************************************************************************)
(* The engine with response interceptors that replace the response, return *)
(* nil, or fail with or without a response.                                *)
(***************************************************************************)
CloseOptions ==
    {WithReplacingResponseFunc, WithNilResponseFunc, WithResponseInterceptorFunc}

NextClose ==
    \/ \E opts \in SeqsUpTo(CloseOptions, MaxBuiltinOpts) : New(opts)
    \/ \E c \in MainCalls, url \in URLs, opts \in SeqsUpTo(CloseOptions, MaxBuiltinOpts) :
          Get(c, url, opts)
    \/ \E c \in MainCalls : ClientRequestInterceptor(c)
    \/ \E c \in MainCalls : CallRequestInterceptor(c)
    \/ \E c \in MainCalls : Transport(c, StatusCodes)
    \/ \E c \in MainCalls : CallResponseInterceptor(c)
    \/ \E c \in MainCalls : ClientResponseInterceptor(c)

SpecClose == Init /\ [][NextClose]_vars

(***************************************************************************)
(* Two calls through one Client, their steps interleaved in any order.     *)
(***************************************************************************)
ConcOptions == {WithRequestInterceptorFunc, WithResponseInterceptorFunc}

NextConc ==
    \/ \E opts \in SeqsUpTo(ConcOptions, MaxConcClientOpts) : New(opts)
    \/ \E c \in CallIds, req \in Requests, opts \in SeqsUpTo(ConcOptions, MaxConcCallOpts) :
          Do(c, req, opts)
    \/ \E c \in CallIds : ClientRequestInterceptor(c)
    \/ \E c \in CallIds : CallRequestInterceptor(c)
    \/ \E c \in CallIds : Transport(c, {200})
    \/ \E c \in CallIds : CallResponseInterceptor(c)
    \/ \E c \in CallIds : ClientResponseInterceptor(c)

SpecConc == Init /\ [][NextConc]_vars


(***************************************************************************)
(* Reading a call's trace.                                                 *)
(***************************************************************************)
IsIcpt(e) == e.ev \in {"req", "res"}

\* the place of the transport call in trace t, 0 when there is none
TransportPos(t) ==
    IF \E j \in 1..Len(t) : t[j].ev = "transport"
    THEN CHOOSE j \in 1..Len(t) : t[j].ev = "transport"
    ELSE 0

\* who was called, event by event
Who(t) == [j \in 1..Len(t) |-> <<t[j].lvl, t[j].arg>>]

\* the positions of opts whose option satisfies P, in order
Positions(opts, P(_)) ==
    SelectSeq([j \in 1..Len(opts) |-> j], LAMBDA j : P(opts[j]))

Tag(lvl, ps) == [j \in 1..Len(ps) |-> <<lvl, ps[j]>>]

\* R1,...,Rn,C1,...,Cm: the request-capable options given to New, then the
\* request-capable options of the call, each in the order passed
ExpectedRequestOrder(c) ==
    Tag("client", Positions(newOpts, IsRequestInterceptor))
    \o Tag("call", Positions(calls[c].opts, IsRequestInterceptor))

\* C1,...,Cm,R1,...,Rn: the response-capable options of the call in the order
\* passed, then the client's response interceptors in the order registered
ExpectedResponseOrder(c) ==
    Tag("call", Positions(calls[c].opts, IsResponseInterceptor))
    \o [j \in 1..Len(client.resInterceptors) |-> <<"client", client.resInterceptors[j].arg>>]

Succeeded(c) == calls[c].pc = "done" /\ calls[c].ret.err = NoErr

(***************************************************************************)
(* Claims.                                                                 *)
(***************************************************************************)
\* C1: the request interceptors called so far are always a prefix of
\* R1,...,Rn,C1,...,Cm; once the transport is called, the calls made before it
\* are exactly R1,...,Rn,C1,...,Cm, each once and in that order, the transport
\* is called once, and no request interceptor is called after it.
C1_RequestOrder ==
    \A c \in CallIds :
        LET t == calls[c].trace
            p == TransportPos(t)
        IN  /\ IsPrefix(Who(SelectSeq(t, LAMBDA e : e.ev = "req")), ExpectedRequestOrder(c))
            /\ p > 0 =>
                 /\ \A j \in 1..(p - 1) : t[j].ev = "req" /\ t[j].err = NoErr
                 /\ Who(SubSeq(t, 1, p - 1)) = ExpectedRequestOrder(c)
                 /\ \A j \in (p + 1)..Len(t) : t[j].ev \notin {"req", "transport"}

\* C1's case: a call with two client-level and two call-level request
\* interceptors has reached the transport.
C1_Witness ==
    /\ Len(client.reqInterceptors) = 2
    /\ Len(Positions(calls["c1"].opts, IsRequestInterceptor)) = 2
    /\ TransportPos(calls["c1"].trace) = 5

\* C2: no response interceptor is called before the transport has returned
\* without error; the response interceptors called so far are always a prefix of
\* C1,...,Cm,R1,...,Rn; in a call that succeeded they are exactly C1,...,Cm,
\* R1,...,Rn, each once and in that order.
C2_ResponseOrder ==
    \A c \in CallIds :
        LET t == calls[c].trace
            p == TransportPos(t)
            rs == SelectSeq(t, LAMBDA e : e.ev = "res")
        IN  /\ \A j \in 1..Len(t) :
                 t[j].ev = "res" => p > 0 /\ p < j /\ t[p].err = NoErr
            /\ IsPrefix(Who(rs), ExpectedResponseOrder(c))
            /\ Succeeded(c) =>
                 /\ p > 0
                 /\ Who(rs) = ExpectedResponseOrder(c)
                 /\ \A j \in 1..Len(rs) : rs[j].err = NoErr

\* C2's case: a call with two call-level and two client-level response
\* interceptors has succeeded.
C2_Witness ==
    /\ Succeeded("c1")
    /\ Len(client.resInterceptors) = 2
    /\ Len(Positions(calls["c1"].opts, IsResponseInterceptor)) = 2
    /\ Len(SelectSeq(calls["c1"].trace, LAMBDA e : e.ev = "res")) = 4

\* C3: when an interceptor has returned an error, the call is over, nothing
\* was called after that interceptor except the deferred close of the body,
\* and Do returned exactly that error.
C3_FirstErrorWins ==
    \A c \in CallIds :
        LET t == calls[c].trace
        IN  \A j \in 1..Len(t) :
                (IsIcpt(t[j]) /\ t[j].err /= NoErr) =>
                    /\ calls[c].pc = "done"
                    /\ calls[c].ret.err = t[j].err
                    /\ \A n \in (j + 1)..Len(t) : t[n].ev = "close"

\* C3's case: the first call-level response interceptor failed in a call that
\* has a second one and whose client has a response interceptor.
C3_Witness ==
    LET t == calls["c1"].trace
    IN  /\ calls["c1"].pc = "done"
        /\ Len(client.resInterceptors) > 0
        /\ Len(Positions(calls["c1"].opts, IsResponseInterceptor)) = 2
        /\ \E j \in 1..Len(t) :
              /\ t[j].ev = "res" /\ t[j].lvl = "call" /\ t[j].arg = 1
              /\ t[j].err = IcptErr(<<"res", "call", 1>>)

\* C4: when a request interceptor has returned an error, Do returned a nil
\* response with that error and the transport was not called.
C4_RequestErrorAborts ==
    \A c \in CallIds :
        LET t == calls[c].trace
        IN  \A j \in 1..Len(t) :
                (t[j].ev = "req" /\ t[j].err /= NoErr) =>
                    /\ calls[c].pc = "done"
                    /\ calls[c].ret = [res |-> NilRes, err |-> t[j].err]
                    /\ TransportPos(t) = 0

\* C4's case: the second client-level request interceptor failed in a call
\* that has call-level request interceptors.
C4_Witness ==
    LET t == calls["c1"].trace
    IN  /\ calls["c1"].pc = "done"
        /\ Len(Positions(calls["c1"].opts, IsRequestInterceptor)) > 0
        /\ Len(t) = 2
        /\ t[2].ev = "req" /\ t[2].lvl = "client" /\ t[2].err /= NoErr

\* C5: when the transport has returned an error, Do returned exactly the
\* transport's response and error, and no response interceptor was called.
C5_TransportError ==
    \A c \in CallIds :
        LET t == calls[c].trace
            p == TransportPos(t)
        IN  (p > 0 /\ t[p].err /= NoErr) =>
                /\ calls[c].pc = "done"
                /\ calls[c].ret = [res |-> t[p].res, err |-> t[p].err]
                /\ \A j \in 1..Len(t) : t[j].ev /= "res"

\* C5's case: the transport returned a response together with an error in a
\* call that has response interceptors at both levels.
C5_Witness ==
    LET t == calls["c1"].trace
        p == TransportPos(t)
    IN  /\ p > 0
        /\ t[p].err = TransportErr
        /\ t[p].res /= NilRes
        /\ Len(client.resInterceptors) > 0
        /\ Len(Positions(calls["c1"].opts, IsResponseInterceptor)) > 0


\* the closes of body b in trace t
ClosesOf(t, b) == Len(SelectSeq(t, LAMBDA e : e.ev = "close" /\ e.body = b))

\* C6, as claimed: whenever the transport returned a non-nil response, Do
\* has closed its body exactly once by the time it returns, also when the
\* transport returned that response together with an error.
C6_ClosedOnEveryExit ==
    \A c \in CallIds :
        LET t == calls[c].trace
            p == TransportPos(t)
        IN  (calls[c].pc = "done" /\ p > 0 /\ t[p].res /= NilRes) =>
                ClosesOf(t, t[p].res.body) = 1

\* C6, amended: when the transport returned without error, Do closes the body
\* of the transport's response exactly once, as the last thing it does, on
\* success and on the error of a call-level or a client-level response
\* interceptor, and not before it returns; when the transport returned an
\* error, or was not called, Do closes nothing.
C6_ClosedAfterTransportSuccess ==
    \A c \in CallIds :
        LET t == calls[c].trace
            p == TransportPos(t)
            closes == SelectSeq(t, LAMBDA e : e.ev = "close")
        IN  IF p > 0 /\ t[p].err = NoErr
            THEN IF calls[c].pc = "done"
                 THEN /\ ClosesOf(t, t[p].res.body) = 1
                      /\ Len(closes) = 1
                      /\ t[Len(t)].ev = "close"
                 ELSE closes = <<>>
            ELSE closes = <<>>

\* C6's case: a client-level response interceptor failed after the transport
\* succeeded, and the body was closed.
C6_Witness ==
    LET t == calls["c1"].trace
        p == TransportPos(t)
    IN  /\ calls["c1"].pc = "done"
        /\ p > 0
        /\ t[p].err = NoErr
        /\ \E j \in 1..Len(t) : t[j].ev = "res" /\ t[j].lvl = "client" /\ t[j].err /= NoErr
        /\ ClosesOf(t, t[p].res.body) = 1

\* the entries of interceptor sequence s that stem from argument j of New
EntriesOf(s, j) == {n \in 1..Len(s) : s[n].arg = j}

\* C7: an option with both capabilities passed once to New is once in the
\* client's request-interceptor sequence and once in its response-interceptor
\* sequence, and runs once in each phase of a call that succeeded.
C7_DualRoleInBoth ==
    client.state = "built" =>
        \A j \in 1..Len(newOpts) :
            (IsRequestInterceptor(newOpts[j]) /\ IsResponseInterceptor(newOpts[j])) =>
                /\ Cardinality(EntriesOf(client.reqInterceptors, j)) = 1
                /\ Cardinality(EntriesOf(client.resInterceptors, j)) = 1
                /\ \A c \in CallIds :
                      Succeeded(c) =>
                          \A ph \in {"req", "res"} :
                              Len(SelectSeq(calls[c].trace,
                                            LAMBDA e : e.ev = ph /\ e.lvl = "client" /\ e.arg = j)) = 1

\* an option of one of the kinds New's type switch has a case for
Recognized(opt) ==
    IsHTTPClientOption(opt) \/ IsRequestInterceptor(opt) \/ IsResponseInterceptor(opt)

\* C8: New panics exactly when one of its options is of no recognized kind,
\* and returns a Client exactly when all are; no call runs without a Client.
C8_PanicIffUnrecognized ==
    /\ client.state /= "none" =>
         /\ client.state = "panicked" <=> \E j \in 1..Len(newOpts) : ~Recognized(newOpts[j])
         /\ client.state = "built" <=> \A j \in 1..Len(newOpts) : Recognized(newOpts[j])
    /\ client.state /= "built" => \A c \in CallIds : calls[c].pc = "idle"

\* C8's case: New was given a recognized option and then an unrecognized one,
\* and panicked.
C8_Witness ==
    /\ client.state = "panicked"
    /\ Len(newOpts) = 2
    /\ Recognized(newOpts[1])
    /\ ~Recognized(newOpts[2])

\* C9: a call started with an invalid method or URL is over at once: it
\* returned a nil response and the construction error, and neither an
\* interceptor nor the transport was called.
C9_ConstructionError ==
    \A c \in CallIds :
        (calls[c].pc /= "idle"
         /\ (~ValidMethod(calls[c].args.method) \/ ~ValidURL(calls[c].args.url))) =>
            /\ calls[c].pc = "done"
            /\ calls[c].ret.res = NilRes
            /\ calls[c].ret.err.kind = "construct"
            /\ calls[c].trace = <<>>

\* C9's case: a call with a valid method and a malformed URL, through a client
\* with a request interceptor and with a call-level request interceptor.
C9_Witness ==
    /\ calls["c1"].pc = "done"
    /\ calls["c1"].args = [method |-> "GET", url |-> <<":", "bad">>]
    /\ calls["c1"].ret.err = ConstructErr("url")
    /\ Len(client.reqInterceptors) > 0
    /\ Len(Positions(calls["c1"].opts, IsRequestInterceptor)) > 0

IsDigit(ch) == \E d \in 1..10 : Digits[d] = ch

\* the number a sequence of decimal digits denotes
RECURSIVE Atoi(_)
Atoi(ds) ==
    IF ds = <<>> THEN 0
    ELSE 10 * Atoi(SubSeq(ds, 1, Len(ds) - 1))
         + (CHOOSE d \in 0..9 : Digits[d + 1] = ds[Len(ds)])

\* msg holds a maximal run of digits that denotes n
NamesCode(msg, n) ==
    \E a \in 1..Len(msg), b \in 1..Len(msg) :
        /\ a <= b
        /\ \A j \in a..b : IsDigit(msg[j])
        /\ a > 1 => ~IsDigit(msg[a - 1])
        /\ b < Len(msg) => ~IsDigit(msg[b + 1])
        /\ Atoi(SubSeq(msg, a, b)) = n

\* the option behind an interceptor call
OptionOf(c, e) == IF e.lvl = "call" THEN calls[c].opts[e.arg] ELSE newOpts[e.arg]

\* C10: the interceptor of ExpectedStatusCode(S) returns the response it was
\* given and a nil error when the status code is in S, and otherwise an error
\* whose message names the actual status code (for every S, the empty one too);
\* a call through a client built with ExpectedStatusCode(200) that is answered
\* 404 returns an error whose message names 404.
C10_ExpectedStatusCode ==
    \A c \in CallIds :
        LET t == calls[c].trace
            p == TransportPos(t)
        IN  /\ \A j \in 1..Len(t) :
                 (t[j].ev = "res" /\ OptionOf(c, t[j]).impl = "status") =>
                     IF t[j].in.status \in OptionOf(c, t[j]).codes
                     THEN t[j].out = t[j].in /\ t[j].err = NoErr
                     ELSE /\ t[j].err /= NoErr
                          /\ NamesCode(t[j].err.msg, t[j].in.status)
            /\ (/\ newOpts = <<ExpectedStatusCode({200})>>
                /\ calls[c].pc = "done"
                /\ p > 0
                /\ t[p].err = NoErr
                /\ t[p].res.status = 404) =>
                   /\ calls[c].ret.err /= NoErr
                   /\ Contains(calls[c].ret.err.msg, <<"4", "0", "4">>)

\* C10's case: the client's ExpectedStatusCode(200) rejected a 404 that the
\* call's own options let pass.
C10_Witness ==
    LET t == calls["c1"].trace
    IN  /\ newOpts = <<ExpectedStatusCode({200})>>
        /\ calls["c1"].pc = "done"
        /\ \E j \in 1..Len(t) :
              /\ t[j].ev = "res" /\ t[j].lvl = "client"
              /\ t[j].in.status = 404
              /\ t[j].err = [kind |-> "status",
                             msg |-> <<"unexpected status code: ", "4", "0", "4">>]


\* the positions, in order, of the arguments of New behind interceptor sequence s
ArgsOf(s) == [n \in 1..Len(s) |-> s[n].arg]

\* C17: the client's request-interceptor sequence is the subsequence of New's
\* options with the request capability, its response-interceptor sequence the
\* subsequence of New's options with the response capability, each in the
\* order passed, and an HTTPClientOption is in neither.
C17_Classification ==
    client.state = "built" =>
        /\ ArgsOf(client.reqInterceptors) = Positions(newOpts, IsRequestInterceptor)
        /\ ArgsOf(client.resInterceptors) = Positions(newOpts, IsResponseInterceptor)
        /\ \A j \in 1..Len(newOpts) :
              IsHTTPClientOption(newOpts[j]) =>
                  /\ EntriesOf(client.reqInterceptors, j) = {}
                  /\ EntriesOf(client.resInterceptors, j) = {}

\* the calls of trace t to the call-level option at position j in phase ph
CallsTo(t, ph, j) ==
    Len(SelectSeq(t, LAMBDA e : e.ev = ph /\ e.lvl = "call" /\ e.arg = j))

\* C19: a call-level option is never called in a phase it has no capability
\* for and never twice in one phase; in a call that succeeded an option with
\* both capabilities was called once in each phase, at its place among the
\* call-level interceptors of that phase, and an option with one capability
\* once, in that phase.
C19_CallLevelDualRole ==
    \A c \in CallIds :
        LET t == calls[c].trace
            o == calls[c].opts
            callEvents(ph) == SelectSeq(t, LAMBDA e : e.ev = ph /\ e.lvl = "call")
        IN  /\ \A j \in 1..Len(o) :
                 /\ CallsTo(t, "req", j) <= (IF IsRequestInterceptor(o[j]) THEN 1 ELSE 0)
                 /\ CallsTo(t, "res", j) <= (IF IsResponseInterceptor(o[j]) THEN 1 ELSE 0)
            /\ Succeeded(c) =>
                 /\ \A j \in 1..Len(o) :
                       /\ CallsTo(t, "req", j) = (IF IsRequestInterceptor(o[j]) THEN 1 ELSE 0)
                       /\ CallsTo(t, "res", j) = (IF IsResponseInterceptor(o[j]) THEN 1 ELSE 0)
                 /\ Who(callEvents("req")) = Tag("call", Positions(o, IsRequestInterceptor))
                 /\ Who(callEvents("res")) = Tag("call", Positions(o, IsResponseInterceptor))

\* C19's case: a call whose options are a response-only one and then one with
\* both capabilities has succeeded.
C19_Witness ==
    /\ Succeeded("c1")
    /\ calls["c1"].opts = <<WithResponseInterceptorFunc, DualFunc>>
    /\ CallsTo(calls["c1"].trace, "req", 2) = 1
    /\ CallsTo(calls["c1"].trace, "res", 2) = 1


\* the calls of trace t to client-level interceptors in phase ph
ClientEvents(t, ph) == SelectSeq(t, LAMBDA e : e.ev = ph /\ e.lvl = "client")

\* C16: the Client stays what New built, whatever calls run through it; every
\* call, whatever the other call does, calls the client-level interceptors in
\* registration order (all of the request ones before it reaches the
\* transport, all of the response ones before it succeeds), and its call-level
\* events are those of its own options.
C16_ClientReadOnly ==
    /\ client.state = "built" => client = NewClient(newOpts)
    /\ \A c \in CallIds :
          LET t == calls[c].trace
          IN  /\ IsPrefix([j \in 1..Len(ClientEvents(t, "req")) |-> ClientEvents(t, "req")[j].arg],
                          ArgsOf(client.reqInterceptors))
              /\ IsPrefix([j \in 1..Len(ClientEvents(t, "res")) |-> ClientEvents(t, "res")[j].arg],
                          ArgsOf(client.resInterceptors))
              /\ TransportPos(t) > 0 =>
                    Len(ClientEvents(t, "req")) = Len(client.reqInterceptors)
              /\ Succeeded(c) =>
                    Len(ClientEvents(t, "res")) = Len(client.resInterceptors)
              /\ \A j \in 1..Len(t) :
                    (IsIcpt(t[j]) /\ t[j].lvl = "call") =>
                        /\ t[j].arg \in 1..Len(calls[c].opts)
                        /\ (t[j].ev = "req" => IsRequestInterceptor(calls[c].opts[t[j].arg]))
                        /\ (t[j].ev = "res" => IsResponseInterceptor(calls[c].opts[t[j].arg]))

\* C16's case: through a client with two request interceptors, one call has
\* succeeded while the other, with different options, is between its request
\* interceptors and its response interceptors.
C16_Witness ==
    /\ Len(client.reqInterceptors) = 2
    /\ Succeeded("c1")
    /\ calls["c2"].pc \in {"transport", "callRes"}
    /\ calls["c1"].opts /= calls["c2"].opts
    /\ Len(ClientEvents(calls["c2"].trace, "req")) = 2


\* the calls of trace t to the interceptor of an option made by WithURLPrefix
IsPrefixCall(c, e) == e.ev = "req" /\ OptionOf(c, e).impl = "prefix"

StartsWithHTTP(s) ==
    IsPrefix(<<"http", ":", "//">>, s) \/ IsPrefix(<<"https", ":", "//">>, s)

\* C12: the interceptor of WithURLPrefix(p) puts the prefix before every URL
\* that does not start with http:// or https:// (ftp://x too), and leaves
\* every URL that does.
C12_PrefixUnlessHTTP ==
    \A c \in CallIds :
        LET t == calls[c].trace
        IN  \A j \in 1..Len(t) :
                (IsPrefixCall(c, t[j]) /\ t[j].err = NoErr) =>
                    IF StartsWithHTTP(String(t[j].in.url))
                    THEN t[j].out = t[j].in
                    ELSE String(t[j].out.url)
                             = OptionOf(c, t[j]).prefix \o String(t[j].in.url)


\* an interception by the function of WithJSON
IsJSONBodyCall(c, e) == e.ev = "req" /\ OptionOf(c, e).impl = "json"

\* C14: after the interceptor of WithJSON(v) returns a nil error, the request
\* body holds exactly the JSON bytes of v, the Content-Type header is the one
\* value application/json whatever it was before, and the content length is
\* the number of those bytes; for the string hello these are the 7 bytes
\* "hello" with its quotes.
C14_WithJSON ==
    \A c \in CallIds :
        LET t == calls[c].trace
        IN  \A j \in 1..Len(t) :
                (IsJSONBodyCall(c, t[j]) /\ t[j].err = NoErr) =>
                    LET v == OptionOf(c, t[j]).value
                        out == t[j].out
                    IN  /\ Marshal(v).err = NoErr
                        /\ out.body /= NilBody
                        /\ out.body.data = Marshal(v).b
                        /\ out.header.ContentType = <<"application/json">>
                        /\ out.length = Len(out.body.data)
                        /\ v = Hello =>
                              /\ out.body.data = <<"\"", "h", "e", "l", "l", "o", "\"">>
                              /\ out.length = 7

\* Post with WithJSON(hello) through a client that set a text/plain body: the
\* transport gets the 7 bytes of "hello", application/json and length 7
C14_Witness ==
    LET t == calls["c1"].trace
    IN  /\ Len(t) >= 3
        /\ calls["c1"].args.method = "POST"
        /\ IsJSONBodyCall("c1", t[2]) /\ t[2].lvl = "call"
        /\ t[2].in.header.ContentType = <<"text/plain">>
        /\ t[3].ev = "transport"
        /\ t[3].req.body.data = <<"\"", "h", "e", "l", "l", "o", "\"">>
        /\ t[3].req.header.ContentType = <<"application/json">>
        /\ t[3].req.length = 7

\* an interception by the function of WithBody or of WithJSON
IsBodySetterCall(c, e) == e.ev = "req" /\ OptionOf(c, e).impl \in {"body", "json"}

\* what an interception added to the log of the request
Logged(e) == SubSeq(e.out.log, Len(e.in.log) + 1, Len(e.out.log))

\* C20: a body setter closes the body the request had, once, and then assigns
\* the new body; it closes nothing when the request had no body; when the Close
\* fails it returns that error, with the body, the Content-Type header and the
\* content length as they were; when WithJSON cannot marshal its value it
\* returns that error, closes nothing and leaves the request as it was.
C20_BodySetterCloses ==
    \A c \in CallIds :
        LET t == calls[c].trace
        IN  \A j \in 1..Len(t) :
                IsBodySetterCall(c, t[j]) =>
                    LET o == OptionOf(c, t[j])
                        in == t[j].in
                        out == t[j].out
                        unmarshallable == o.impl = "json" /\ Marshal(o.value).err /= NoErr
                    IN  /\ IsPrefix(in.log, out.log)
                        /\ unmarshallable =>
                              /\ t[j].err = Marshal(o.value).err
                              /\ out = in
                        /\ (~unmarshallable /\ in.body = NilBody) =>
                              /\ t[j].err = NoErr
                              /\ Logged(t[j]) = << <<"set", out.body.id>> >>
                        /\ (~unmarshallable /\ in.body /= NilBody /\ in.body.closeFails) =>
                              /\ t[j].err = CloseErr(in.body.id)
                              /\ Logged(t[j]) = << <<"close", in.body.id>> >>
                              /\ out.body = in.body
                              /\ out.header = in.header
                              /\ out.length = in.length
                        /\ (~unmarshallable /\ in.body /= NilBody /\ ~in.body.closeFails) =>
                              /\ t[j].err = NoErr
                              /\ Logged(t[j]) = << <<"close", in.body.id>>, <<"set", out.body.id>> >>

\* Do with a request that has a body, WithBody at the client and
\* WithJSON(a channel) at the call: WithBody closes the body and sets its own,
\* WithJSON returns the marshal error and leaves the request
C20_Witness ==
    LET t == calls["c1"].trace
    IN  /\ calls["c1"].pc = "done"
        /\ Len(t) = 2
        /\ OptionOf("c1", t[1]) = WithBody(PlainReader, "text/plain", 2)
        /\ t[1].in.body.id = 3
        /\ Logged(t[1]) = << <<"close", 3>>, <<"set", 1>> >>
        /\ OptionOf("c1", t[2]) = WithJSON(AChannel)
        /\ t[2].out = t[2].in
        /\ calls["c1"].ret.err = [kind |-> "marshal", type |-> "chan"]

\* Do with a request whose body fails to close and WithJSON(hello): the call
\* returns the Close error and the transport is not called
C20_WitnessCloseFails ==
    LET t == calls["c1"].trace
    IN  /\ calls["c1"].pc = "done"
        /\ Len(t) = 1
        /\ OptionOf("c1", t[1]) = WithJSON(Hello)
        /\ t[1].in.body.id = 4
        /\ t[1].out.body.id = 4
        /\ calls["c1"].ret.err = CloseErr(4)


\* an interception of a response by forJSON
IsForJSONCall(c, e) == e.ev = "res" /\ OptionOf(c, e).impl = "forjson"

\* C13: forJSON.InterceptResponse returns an error whose message ends with the
\* response's content type when that does not start with application/json, and
\* then reads nothing and stores nothing; when it does start with
\* application/json the whole body is read, a failed read or a refused decode
\* is returned as the error with nothing stored, and otherwise the decoded
\* value is stored in the target and the error is nil.
C13_ForJSONResponse ==
    \A c \in CallIds :
        LET t == calls[c].trace
        IN  \A j \in 1..Len(t) :
                IsForJSONCall(c, t[j]) =>
                    LET in == t[j].in
                        out == t[j].out
                        ct == GetContentType(in)
                        msg == t[j].err.msg
                        done == Logged(t[j])
                        decoded == Unmarshal(in.data)
                    IN  /\ IsPrefix(in.log, out.log)
                        /\ ~HasJSONPrefix(ct) =>
                              /\ t[j].err.kind = "fmt"
                              /\ SubSeq(msg, Len(msg) - Len(ct) + 1, Len(msg)) = ct
                              /\ msg[1] = "expected JSON response but got "
                              /\ out = in
                        /\ (HasJSONPrefix(ct) /\ in.readFails) =>
                              /\ t[j].err = ReadErr
                              /\ \A n \in 1..Len(done) : done[n].op = "read"
                        /\ (HasJSONPrefix(ct) /\ ~in.readFails) =>
                              /\ done /= <<>>
                              /\ done[1] = [op |-> "read", data |-> in.data]
                              /\ out.data = <<>>
                              /\ t[j].err = decoded.err
                              /\ IF decoded.err = NoErr
                                 THEN done = <<done[1], [op |-> "store",
                                                         target |-> OptionOf(c, t[j]).target,
                                                         value |-> decoded.value]>>
                                 ELSE Len(done) = 1
                              /\ in.data = <<"\"", "h", "i", "\"">> =>
                                    /\ t[j].err = NoErr
                                    /\ done[2].value = [type |-> "string", chars |-> <<"h", "i">>]

\* Get with ForJSON answered with application/json; charset=utf-8 and "hi":
\* the call succeeds and hi is stored in the target
C13_Witness ==
    LET t == calls["c1"].trace
    IN  /\ Succeeded("c1")
        /\ \E j \in 1..Len(t) :
              /\ IsForJSONCall("c1", t[j])
              /\ GetContentType(t[j].in) = <<"application/json", "; charset=utf-8">>
              /\ Logged(t[j]) = <<[op |-> "read", data |-> <<"\"", "h", "i", "\"">>],
                                  [op |-> "store", target |-> "t1",
                                   value |-> [type |-> "string", chars |-> <<"h", "i">>]]>>

\* Get with ForJSON answered with text/html: the call returns the error that
\* names text/html and the body is not read
C13_WitnessMismatch ==
    LET t == calls["c1"].trace
    IN  /\ calls["c1"].pc = "done"
        /\ calls["c1"].ret.err = [kind |-> "fmt",
                                  msg |-> <<"expected JSON response but got ", "text/html">>]
        /\ calls["c1"].ret.res.log = <<>>
        /\ calls["c1"].ret.res.data /= <<>>


\* the request Get makes and gives to Do
GivenRequest(c) == NewRequestWithContext(calls[c].args.method, calls[c].args.url).req

\* C18: in a call, the first request interceptor gets the request given to Do
\* and every later one the request the one before returned; the transport gets
\* the request the last one returned; the first response interceptor gets the
\* transport's response and every later one the response the one before
\* returned; a call that succeeds returns the response the last one returned.
C18_ThreadedForward ==
    \A c \in CallIds :
        LET t == calls[c].trace
            p == TransportPos(t)
            reqs == SelectSeq(t, LAMBDA e : e.ev = "req")
            ress == SelectSeq(t, LAMBDA e : e.ev = "res")
        IN  /\ reqs /= <<>> => reqs[1].in = GivenRequest(c)
            /\ \A n \in 2..Len(reqs) : reqs[n].in = reqs[n - 1].out
            /\ p > 0 =>
                  t[p].req = IF reqs = <<>> THEN GivenRequest(c) ELSE reqs[Len(reqs)].out
            /\ ress /= <<>> => (p > 0 /\ ress[1].in = t[p].res)
            /\ \A n \in 2..Len(ress) : ress[n].in = ress[n - 1].out
            /\ Succeeded(c) =>
                  calls[c].ret.res = IF ress = <<>> THEN t[p].res ELSE ress[Len(ress)].out

\* a call that succeeds with the request replaced at the client and at the
\* call, and the response replaced at the call and at the client
C18_Witness ==
    LET t == calls["c1"].trace
    IN  /\ Succeeded("c1")
        /\ Len(t) >= 5
        /\ t[1].ev = "req" /\ t[1].in.h = 1 /\ t[1].out.h = 11
        /\ t[2].ev = "req" /\ t[2].in.h = 11 /\ t[2].out.h = 21
        /\ t[3].ev = "transport" /\ t[3].req.h = 21 /\ t[3].res.h = 1
        /\ t[4].ev = "res" /\ t[4].lvl = "call" /\ t[4].out.h = 22
        /\ t[5].ev = "res" /\ t[5].lvl = "client" /\ t[5].in.h = 22 /\ t[5].out.h = 12
        /\ calls["c1"].ret.res.h = 12

\* C15: a call that has returned a nil error has returned a response that is
\* not nil, whatever the interceptors returned.
C15_NeverNilWithNil ==
    \A c \in CallIds :
        (calls[c].pc = "done" /\ calls[c].ret.err = NoErr) => calls[c].ret.res /= NilRes


\* the responses the response interceptors of trace t returned in place of the
\* one they were given
Replacements(t) ==
    { t[j].out : j \in { n \in 1..Len(t) : t[n].ev = "res" /\ t[n].out /= t[n].in
                                             /\ t[n].out /= NilRes } }

\* C21: every body Do closes is the body of the response the transport
\* returned; after the transport returned without error, a call that is over
\* has closed that body exactly once, also when a response interceptor
\* returned another response, or nil with an error; and the body of a
\* response an interceptor returned in place of its argument is never closed.
C21_RawBodyClosed ==
    \A c \in CallIds :
        LET t == calls[c].trace
            p == TransportPos(t)
        IN  /\ \A j \in 1..Len(t) :
                  t[j].ev = "close" => (p > 0 /\ p < j /\ t[j].body = t[p].res.body)
            /\ (p > 0 /\ t[p].err = NoErr) =>
                  /\ calls[c].pc /= "done" => calls[c].deferred = <<t[p].res.body>>
                  /\ calls[c].pc = "done" => ClosesOf(t, t[p].res.body) = 1
                  /\ \A r \in Replacements(t) :
                        /\ r.body /= t[p].res.body
                        /\ ClosesOf(t, r.body) = 0

\* a call-level interceptor returned a new response, the client-level one
\* returned nil and an error: the call returns nil and that error, and the
\* body of the transport's response is the one body closed
C21_Witness ==
    LET t == calls["c1"].trace
    IN  /\ calls["c1"].pc = "done"
        /\ Len(t) = 4
        /\ t[1].ev = "transport" /\ t[1].err = NoErr /\ t[1].res.body = 1
        /\ t[2].ev = "res" /\ t[2].lvl = "call"
        /\ t[2].out /= NilRes /\ t[2].out.body = 21
        /\ t[3].ev = "res" /\ t[3].lvl = "client" /\ t[3].in = t[2].out
        /\ t[3].out = NilRes /\ t[3].err /= NoErr
        /\ t[4] = [ev |-> "close", body |-> 1]
        /\ calls["c1"].ret.res = NilRes

\* a call that succeeds and returns a replacement: the body of the
\* transport's response is closed, the body of the replacement is not
C21_WitnessReplaced ==
    LET t == calls["c1"].trace
    IN  /\ Succeeded("c1")
        /\ calls["c1"].ret.res /= NilRes
        /\ calls["c1"].ret.res.body = 11
        /\ ClosesOf(t, 1) = 1
        /\ ClosesOf(t, 11) = 0

====
